---- MODULE Spec2Model ----
(***************************************************************************)
(* The full-text indexing plugin of OctoBase (jwst):                       *)
(*   libs/jwst/src/workspaces/plugins/indexing/indexing.rs                 *)
(*                                                                         *)
(* State: the block store of the workspace, the shared dirty counter       *)
(* queue_reindex (an AtomicU32), the committed Tantivy index (a bag of     *)
(* documents), and the position and locals of the one on_update call that  *)
(* can be running (on_update takes &mut self, so calls never overlap).     *)
(* The notifier (the yrs update subscription) and search interleave with   *)
(* the steps of on_update.  The drop of the plugin releases its fields in  *)
(* the order of their declaration, the subscription last.                  *)
(***************************************************************************)
EXTENDS Integers, Sequences, FiniteSets, Bags, TLC

(* ------------------------------ bounds -------------------------------- *)

\* The dirty counter is not driven above this value.
MaxCounter == 2

\* The committed index is not grown beyond this many documents.
MaxDocs == 4

\* Number of transactions committed on the workspace.
MaxTransacts == 2

\* The bound on the index where searches meet more hits than they return.
TopKDocs == 12

\* Block identifiers of the workspace.
BlockIds == {"a", "b"}

\* String values a block field can hold, and the query texts.
Strings == {"x", "x y"}
Terms == {"x", "y"}
Malformed == "("
Queries == Terms \cup {Malformed}

(* -------------------------- program constants ------------------------- *)

\* AtomicU32: arithmetic on the counter wraps modulo 2^32.  A counter value v
\* is held as its two's-complement reading (v below 2^31 as v, v from 2^31
\* up as v - 2^32), on which wrapping addition and subtraction are the
\* integers' own: a negative reading is a counter that wrapped below zero.
Positive(v) == v # 0

\* TopDocs::with_limit(10)
TopK == 10

(* ------------------------------ values -------------------------------- *)

\* Option<T>: None is the empty sequence, Some(v) a sequence of one value.
None == << >>
Some(v) == << v >>

\* lib0::any::Any: a string, or a value of another type.
AnyString(s) == [tag |-> "String", val |-> s]
AnyNumber == [tag |-> "Number", val |-> "1"]
AnyVals == {AnyString(s) : s \in Strings} \cup {AnyNumber}

\* What block.content().get(key) returns: the value, if the key is set.
FieldVals == {None} \cup {Some(v) : v \in AnyVals}

\* A block: its content's "title" and "text" entries, and whether it is
\* still among its parent's children.
Blocks == [title : FieldVals, text : FieldVals, attached : BOOLEAN]

\* The default tokenizer: the words of a string.
Tokens(s) ==
    CASE s = "x" -> {"x"}
      [] s = "x y" -> {"x", "y"}
      [] OTHER -> {}

\* An index document: block_id, and the title and body when present.
Docs == [block_id : BlockIds,
         title : {None} \cup {Some(s) : s \in Strings},
         body : {None} \cup {Some(s) : s \in Strings}]

\* A document of the same schema that on_update did not build: it has no
\* block_id value, and a title or nothing at all.
ForeignDocs == [title : {None} \cup {Some(s) : s \in Strings},
                body : {None}]

\* retrieved_doc.get_first(block_id_field) is Some(Value::Str(id))
HasBlockId(d) == "block_id" \in DOMAIN d

(* ------------------------------- state -------------------------------- *)

VARIABLES
    store,          \* block id -> block, for the blocks the store knows
    transacts,      \* number of block transactions so far
    queue_reindex,  \* the dirty counter
    index,          \* committed index: the bag of its documents
    pc,             \* position of the running on_update call, or "idle"
    curr,           \* on_update: the counter value it loaded
    re_index_list,  \* on_update: block id -> (title, body)
    added,          \* re_index_content: block ids added to the open writer
    ret,            \* what the last step returned to its caller, if it did
    \* History, read by the properties only:
    racing,         \* notifications since the running call loaded the counter
    scanned,        \* the store as the running call's scan found it
    committedTerms, \* <<id, term>>: a committed pass scanned block id holding term
    visibleTerms,   \* the same, of the passes that have returned Ok
    commits,        \* number of commits that added a document
    passesWith,     \* bag of block ids: one copy per committed pass that scanned it
    atLoad,         \* the committed index as it was when the running call loaded
    drained,        \* sum of the amounts the fetch_sub of returned calls took
    \* The plugin value and the field it only keeps:
    life,           \* "alive", "dropping" (its drop has begun) or "dropped"
    subscribed      \* _update_sub is held: the callback is registered

vars == << store, transacts, queue_reindex, index, pc, curr, re_index_list,
           added, ret, racing, scanned, committedTerms, visibleTerms, commits,
           passesWith, atLoad, drained, life, subscribed >>

lifecycle == << life, subscribed >>

history == << racing, scanned, committedTerms, visibleTerms, commits, passesWith,
             atLoad, drained >>

NoRet == [op |-> "none"]
\* Ok(()) of on_update; `drained` notes the amount its fetch_sub took.
OkUpdate(n) == [op |-> "on_update", ok |-> TRUE, drained |-> n]
ErrUpdate(why) == [op |-> "on_update", ok |-> FALSE, why |-> why]

\* The Result of a search is in its caller's hands: the caller takes it
\* (SearchTaken) before the next step.  Taking it changes nothing else, so no
\* interleaving of the notifier, on_update and search is left out.
Held == ret.op = "search"

EmptyMap == [i \in {} |-> None]

\* A block's string-typed title or text holds the term.
HasTerm(b, t) ==
    \E key \in {"title", "text"} :
        /\ b[key] # None
        /\ b[key][1].tag = "String"
        /\ t \in Tokens(b[key][1].val)

TermsOf(st) == {p \in (DOMAIN st) \X Terms : HasTerm(st[p[1]], p[2])}

\* A new plugin on a workspace holding the blocks of st, built over an index
\* that holds the documents of idx.
Built(st, idx) ==
    /\ store = st
    /\ transacts = 0
    /\ queue_reindex = 0
    /\ index = idx
    /\ pc = "idle"
    /\ curr = 0
    /\ re_index_list = EmptyMap
    /\ added = {}
    /\ ret = NoRet
    /\ racing = 0
    /\ scanned = EmptyMap
    /\ committedTerms = {}
    /\ visibleTerms = {}
    /\ commits = 0
    /\ passesWith = EmptyBag
    /\ atLoad = EmptyBag
    /\ drained = 0
    /\ life = "alive"
    /\ subscribed = TRUE

\* A fresh plugin on a workspace holding the blocks of st.
Fresh(st) == Built(st, EmptyBag)

\* The plugin inserted into a workspace made from an empty document.
Init == Fresh(EmptyMap)

(* ------------------------------ notifier ------------------------------ *)

\* The subscription callback: one fetch_add(1) per update event.
mark_dirty(q) == q + 1

Notified ==
    /\ ~Held
    /\ subscribed
    /\ queue_reindex < MaxCounter
    /\ queue_reindex' = mark_dirty(queue_reindex)
    /\ racing' = IF pc = "idle" THEN 0 ELSE racing + 1
    /\ ret' = NoRet
    /\ UNCHANGED << index, pc, curr, re_index_list, added, scanned,
                    committedTerms, visibleTerms, commits, passesWith,
                    atLoad, drained,
                    lifecycle >>

\* The operations of a transaction on one block: create it, set one of its
\* content entries, remove it from its parent's children.
NewBlock == [title |-> None, text |-> None, attached |-> TRUE]

Written(st, id, b) ==
    [i \in DOMAIN st \cup {id} |-> IF i = id THEN b ELSE st[i]]

Create(st, id) == Written(st, id, NewBlock)

Set(st, id, key, v) ==
    LET old == IF id \in DOMAIN st THEN st[id] ELSE NewBlock
    IN Written(st, id, [old EXCEPT ![key] = Some(v)])

RemoveChildren(st, id) ==
    Written(st, id, [st[id] EXCEPT !.attached = FALSE])

\* The stores a transaction can leave; st itself when it touches no block.
Edits(st) ==
    {st}
        \cup {Create(st, id) : id \in BlockIds \ DOMAIN st}
        \cup {Set(st, id, key, v) : id \in BlockIds, key \in {"title", "text"}, v \in AnyVals}
        \cup {RemoveChildren(st, id) : id \in DOMAIN st}

\* A transaction edits at most one block; the update event of its commit
\* notifies once, whatever it changed.
Transact(st) ==
    /\ transacts < MaxTransacts
    /\ store' = st
    /\ transacts' = transacts + 1
    /\ Notified

\* An update event on a workspace whose transactions are not counted.
Notify ==
    /\ Notified
    /\ UNCHANGED << store, transacts >>

(* ------------------------------ on_update ----------------------------- *)

\* Number of documents of an index.
Total(idx) == BagCardinality(idx)

\* AsString keeping a value of any type, as its text.
AsStringAny(field) ==
    IF field # None THEN Some(field[1].val) ELSE None

\* title.and_then / body.and_then: a string value, or None.
AsString(field) ==
    IF field # None /\ field[1].tag = "String" THEN Some(field[1].val) ELSE None

\* ReIndexList reading the body from a key the blocks do not set.
ReIndexListNoText(st) ==
    [id \in DOMAIN st |-> [title |-> AsString(st[id].title), body |-> None]]

\* ReIndexList walking only the blocks still attached to a parent.
ReIndexListAttached(st) ==
    [id \in {i \in DOMAIN st : st[i].attached} |->
        [title |-> AsString(st[id].title), body |-> AsString(st[id].text)]]

\* The scan loop: one entry per block of block_iter().
ReIndexList(st) ==
    [id \in DOMAIN st |->
        [title |-> AsString(st[id].title), body |-> AsString(st[id].text)]]

\* BlockDoc without the add_text of the title.
BlockDocNoTitle(id, entry) ==
    [block_id |-> id, title |-> None, body |-> entry.body]

\* The document re_index_content builds for one entry.
BlockDoc(id, entry) ==
    [block_id |-> id, title |-> entry.title, body |-> entry.body]

\* OnUpdateLoad taking a counter of 0 as "reindex everything".
OnUpdateLoadAlways(maxDocs) ==
    /\ ~Held
    /\ life = "alive"
    /\ pc = "idle"
    /\ Total(index) + Cardinality(BlockIds) <= maxDocs
    /\ curr' = queue_reindex
    /\ pc' = "scan"
    /\ ret' = NoRet
    /\ racing' = 0
    /\ atLoad' = index
    /\ UNCHANGED << store, transacts, queue_reindex, index, re_index_list, added,
                    scanned, committedTerms, visibleTerms, commits, passesWith,
                    drained,
                    lifecycle >>

\* OnUpdateLoad draining the counter as it reads it, the fetch_sub that ends
\* the call left in place.
OnUpdateLoadDrain(maxDocs) ==
    /\ ~Held
    /\ life = "alive"
    /\ pc = "idle"
    /\ Total(index) + Cardinality(BlockIds) <= maxDocs
    /\ curr' = queue_reindex
    /\ queue_reindex' = 0
    /\ pc' = IF Positive(queue_reindex) THEN "scan" ELSE "sub"
    /\ ret' = NoRet
    /\ racing' = 0
    /\ atLoad' = index
    /\ UNCHANGED << store, transacts, index, re_index_list, added,
                    scanned, committedTerms, visibleTerms, commits, passesWith,
                    drained,
                    lifecycle >>

\* let curr = self.queue_reindex.load(SeqCst); if curr > 0 { ... }
OnUpdateLoad(maxDocs) ==
    /\ ~Held
    /\ life = "alive"
    /\ pc = "idle"
    /\ Total(index) + Cardinality(BlockIds) <= maxDocs
    /\ curr' = queue_reindex
    /\ pc' = IF Positive(queue_reindex) THEN "scan" ELSE "sub"
    /\ ret' = NoRet
    /\ racing' = 0
    /\ atLoad' = index
    /\ UNCHANGED << store, transacts, queue_reindex, index, re_index_list, added,
                    scanned, committedTerms, visibleTerms, commits, passesWith,
                    drained,
                    lifecycle >>

OnUpdateScan ==
    /\ ~Held
    /\ pc = "scan"
    /\ re_index_list' = ReIndexList(store)
    /\ pc' = "writer"
    /\ ret' = NoRet
    /\ scanned' = store
    /\ UNCHANGED << store, transacts, queue_reindex, index, curr, added, racing,
                    committedTerms, visibleTerms, commits, passesWith,
                    atLoad, drained,
                    lifecycle >>

\* Fail with the documents already added flushed into the index as the
\* writer is dropped.
FailFlushed(why) ==
    /\ ~Held
    /\ pc' = "idle"
    /\ curr' = 0
    /\ re_index_list' = EmptyMap
    /\ added' = {}
    /\ ret' = ErrUpdate(why)
    /\ racing' = 0
    /\ scanned' = EmptyMap
    /\ atLoad' = EmptyBag
    /\ index' = index (+) SetToBag({BlockDoc(id, re_index_list[id]) : id \in added})
    /\ UNCHANGED << store, transacts, queue_reindex,
                    committedTerms, visibleTerms, commits, passesWith, drained,
                    lifecycle >>

\* Fail with the counter drained before the error is returned.
FailDrained(why) ==
    /\ ~Held
    /\ pc' = "idle"
    /\ curr' = 0
    /\ re_index_list' = EmptyMap
    /\ added' = {}
    /\ ret' = ErrUpdate(why)
    /\ racing' = 0
    /\ scanned' = EmptyMap
    /\ queue_reindex' = queue_reindex - curr
    /\ atLoad' = EmptyBag
    /\ UNCHANGED << store, transacts, index,
                    committedTerms, visibleTerms, commits, passesWith, drained,
                    lifecycle >>

\* An error leaves on_update through `?`, before the fetch_sub.
Fail(why) ==
    /\ ~Held
    /\ pc' = "idle"
    /\ curr' = 0
    /\ re_index_list' = EmptyMap
    /\ added' = {}
    /\ ret' = ErrUpdate(why)
    /\ racing' = 0
    /\ scanned' = EmptyMap
    /\ atLoad' = EmptyBag
    /\ UNCHANGED << store, transacts, queue_reindex, index,
                    committedTerms, visibleTerms, commits, passesWith, drained,
                    lifecycle >>

\* self.index.writer(50_000_000)
WriterOk ==
    /\ ~Held
    /\ pc = "writer"
    /\ pc' = "add"
    /\ ret' = NoRet
    /\ UNCHANGED << store, transacts, queue_reindex, index, curr, re_index_list,
                    added, history,
                    lifecycle >>

WriterErr ==
    /\ pc = "writer"
    /\ Fail("writer")

\* writer.add_document(block_doc)?, in the order the HashMap yields
AddOk(id) ==
    /\ ~Held
    /\ pc = "add"
    /\ id \in DOMAIN re_index_list \ added
    /\ added' = added \cup {id}
    /\ ret' = NoRet
    /\ UNCHANGED << store, transacts, queue_reindex, index, pc, curr,
                    re_index_list, history,
                    lifecycle >>

AddErr ==
    /\ pc = "add"
    /\ DOMAIN re_index_list \ added # {}
    /\ Fail("add_document")

\* Committed deleting a block's earlier documents before it adds the new one.
CommittedReplace(idx, list, ids) ==
    LET kept == {d \in BagToSet(idx) : d.block_id \notin ids}
    IN [d \in kept |-> idx[d]] (+) SetToBag({BlockDoc(id, list[id]) : id \in ids})

\* writer.commit(): the added documents join the committed index at once.
Committed(idx, list, ids) ==
    idx (+) SetToBag({BlockDoc(id, list[id]) : id \in ids})

CommitOk ==
    /\ ~Held
    /\ pc = "add"
    /\ added = DOMAIN re_index_list
    /\ index' = Committed(index, re_index_list, added)
    /\ pc' = "sub"
    /\ re_index_list' = EmptyMap
    /\ added' = {}
    /\ ret' = NoRet
    /\ committedTerms' = committedTerms \cup TermsOf(scanned)
    /\ commits' = IF DOMAIN scanned = {} THEN commits ELSE commits + 1
    /\ passesWith' = passesWith (+) SetToBag(DOMAIN scanned)
    /\ UNCHANGED << store, transacts, queue_reindex, curr, racing, scanned,
                    visibleTerms, atLoad, drained,
                    lifecycle >>

CommitErr ==
    /\ pc = "add"
    /\ added = DOMAIN re_index_list
    /\ Fail("commit")

\* fetch_sub taking one per call instead of the amount loaded.
fetch_sub_one(q, n) == q - 1

\* fetch_sub resetting the counter to zero outright.
store_zero(q, n) == 0

\* self.queue_reindex.fetch_sub(curr, SeqCst)
fetch_sub(q, n) == q - n

\* The fetch_sub and Ok(()) that end on_update.
OnUpdateSub ==
    /\ ~Held
    /\ pc = "sub"
    /\ queue_reindex' = fetch_sub(queue_reindex, curr)
    /\ pc' = "idle"
    /\ curr' = 0
    /\ ret' = OkUpdate(curr)
    /\ racing' = 0
    /\ scanned' = EmptyMap
    /\ visibleTerms' = committedTerms
    /\ atLoad' = EmptyBag
    /\ drained' = drained + curr
    /\ UNCHANGED << store, transacts, index, re_index_list, added,
                    committedTerms, commits, passesWith,
                    lifecycle >>

(* ------------------------------- search ------------------------------- *)

\* query_parser.parse_query
ParseOk(q) == q # Malformed

\* DocTokens with the title as the only default field of the query parser.
DocTokensTitleOnly(d) == IF d.title = None THEN {} ELSE Tokens(d.title[1])

\* The terms a document is found by: those of its title and of its body.
DocTokens(d) ==
    (IF d.title = None THEN {} ELSE Tokens(d.title[1]))
        \cup (IF d.body = None THEN {} ELSE Tokens(d.body[1]))

\* The documents of the index that match the query, with their copies.
Hits(idx, q) ==
    [d \in {e \in BagToSet(idx) : q \in DocTokens(e)} |-> idx[d]]

MatchCount(idx, q) == BagCardinality(Hits(idx, q))

\* TopDocs collecting every hit.
TopDocsAll(idx, q) == {Hits(idx, q)}

\* TopDocs::with_limit(TopK): the hits kept, at most TopK of them.  Which of
\* the hits beyond the limit are dropped is the engine's ranking.
TopDocs(idx, q) ==
    LET hits == Hits(idx, q)
        n == BagCardinality(hits)
        k == IF n > TopK THEN TopK ELSE n
    IN {top \in SubBag(hits) : BagCardinality(top) = k}

\* Items pushing a result for every hit, with an empty id for a hit that
\* has no block_id.
ItemsUnchecked(top) ==
    BagOfAll(LAMBDA d : IF HasBlockId(d) THEN d.block_id ELSE "", top)

\* The loop over top_docs: one SearchResult per hit with a string block_id;
\* the bag of the block ids of the results.  A hit without one is reported
\* on stderr and gives no result.
Items(top) ==
    BagOfAll(LAMBDA d : d.block_id,
             [d \in {e \in BagToSet(top) : HasBlockId(e)} |-> top[d]])

\* Returns of a search that takes the index it read for up to date and
\* clears the dirty counter.
ReturnsClearing(r) ==
    /\ ~Held
    /\ life = "alive"
    /\ ret' = r
    /\ queue_reindex' = 0
    /\ UNCHANGED << store, transacts, index, pc, curr,
                    re_index_list, added, history,
                    lifecycle >>

\* search takes &self and writes nothing: it only returns.
Returns(r) ==
    /\ ~Held
    /\ life = "alive"
    /\ ret' = r
    /\ UNCHANGED << store, transacts, queue_reindex, index, pc, curr,
                    re_index_list, added, history,
                    lifecycle >>

\* reader_builder()...try_into()? fails
SearchReaderErr ==
    Returns([op |-> "search", ok |-> FALSE, why |-> "reader"])

\* parse_query(query)? fails
SearchParseErr(q) ==
    /\ ~ParseOk(q)
    /\ Returns([op |-> "search", ok |-> FALSE, why |-> "parse", query |-> q])

\* searcher.search(..)? or searcher.doc(..)? fails
SearchEngineErr(q) ==
    /\ ParseOk(q)
    /\ Returns([op |-> "search", ok |-> FALSE, why |-> "searcher"])

\* SearchOk over a reader that also loads the segments the open writer has
\* not committed.
SearchOkUncommitted(q) ==
    /\ ParseOk(q)
    /\ \E top \in TopDocs(Committed(index, re_index_list, added), q) :
          Returns([op |-> "search", ok |-> TRUE, query |-> q, items |-> Items(top)])

\* SearchOk taking a query the parser rejects as a query without terms.
SearchOkLenient(q) ==
    \E top \in TopDocs(index, q) :
        Returns([op |-> "search", ok |-> TRUE, query |-> q, items |-> Items(top)])

SearchOk(q) ==
    /\ ParseOk(q)
    /\ \E top \in TopDocs(index, q) :
          Returns([op |-> "search", ok |-> TRUE, query |-> q, items |-> Items(top)])

\* The caller has the Ok(list) or the Err that search returned.
SearchTaken ==
    /\ Held
    /\ ret' = NoRet
    /\ UNCHANGED << store, transacts, queue_reindex, index, pc, curr,
                    re_index_list, added, history,
                    lifecycle >>

(* ------------------------------ teardown ------------------------------ *)

\* The plugin value is dropped, which no borrow of a running call allows
\* before the call returns.  The struct has no Drop of its own: its fields
\* are dropped in the order of their declaration, queue_reindex (the
\* plugin's handle on the counter), schema, index and query_parser first.
DropBegin ==
    /\ life = "alive"
    /\ pc = "idle"
    /\ ~Held
    /\ life' = "dropping"
    /\ ret' = NoRet
    /\ UNCHANGED << store, transacts, queue_reindex, index, pc, curr,
                    re_index_list, added, history, subscribed >>

\* DropUpdateSub of a plugin that forgets its subscription instead of
\* dropping it.
DropUpdateSubForgotten ==
    /\ life = "dropping"
    /\ life' = "dropped"
    /\ UNCHANGED << store, transacts, queue_reindex, index, pc, curr,
                    re_index_list, added, ret, history, subscribed >>

\* _update_sub, the last field, is dropped: the callback is unregistered.
DropUpdateSub ==
    /\ life = "dropping"
    /\ life' = "dropped"
    /\ subscribed' = FALSE
    /\ UNCHANGED << store, transacts, queue_reindex, index, pc, curr,
                    re_index_list, added, ret, history >>

\* A transaction on the workspace once no callback is registered.
TransactUnobserved(st) ==
    /\ ~subscribed
    /\ transacts < MaxTransacts
    /\ store' = st
    /\ transacts' = transacts + 1
    /\ UNCHANGED << queue_reindex, index, pc, curr, re_index_list, added, ret,
                    history, lifecycle >>

(* ---------------------------- specification --------------------------- *)

Search ==
    \/ SearchReaderErr
    \/ \E q \in Queries : SearchParseErr(q)
    \/ \E q \in Queries : SearchEngineErr(q)
    \/ \E q \in Queries : SearchOk(q)
    \/ SearchTaken

OnUpdate(maxDocs) ==
    \/ OnUpdateLoad(maxDocs)
    \/ OnUpdateScan
    \/ WriterOk
    \/ WriterErr
    \/ \E id \in BlockIds : AddOk(id)
    \/ AddErr
    \/ CommitOk
    \/ CommitErr
    \/ OnUpdateSub

Next ==
    \/ \E st \in Edits(store) : Transact(st)
    \/ OnUpdate(MaxDocs)
    \/ Search

Spec == Init /\ [][Next]_vars

\* The plugin on a workspace that already holds both blocks, with string or
\* missing titles and texts; no transaction follows.  Reindexing it again
\* and again grows the index past the search limit.
SeededStores ==
    [BlockIds -> [title : {None} \cup {Some(AnyString(s)) : s \in Strings},
                  text : {None} \cup {Some(AnyString(s)) : s \in Strings},
                  attached : {TRUE}]]

InitTopK == \E st \in SeededStores : Fresh(st)

NextTopK ==
    \/ Notify
    \/ OnUpdate(TopKDocs)
    \/ Search

SpecTopK == InitTopK /\ [][NextTopK]_vars

\* The plugin built over an index that holds one document without a
\* block_id, on a workspace that holds both blocks.
InitForeign ==
    \E st \in SeededStores, f \in ForeignDocs : Built(st, SetToBag({f}))

NextForeign ==
    \/ Notify
    \/ OnUpdate(MaxDocs)
    \/ Search

SpecForeign == InitForeign /\ [][NextForeign]_vars

\* The plugin from its insertion to its drop, on a workspace that outlives
\* it.
NextDrop ==
    \/ \E st \in Edits(store) : Transact(st)
    \/ \E st \in Edits(store) : TransactUnobserved(st)
    \/ OnUpdate(MaxDocs)
    \/ DropBegin
    \/ DropUpdateSub

SpecDrop == Init /\ [][NextDrop]_vars

\* The plugin whose on_update keeps being called: a call that can take a
\* step takes one.  Every committed pass ends in a fetch_sub of at least 1,
\* so there are no more committed passes than transactions, and the index
\* never reaches LiveDocs documents before the last of them.
LiveDocs == Cardinality(BlockIds) * MaxTransacts

NextLive ==
    \/ \E st \in Edits(store) : Transact(st)
    \/ OnUpdate(LiveDocs)

SpecLive == Init /\ [][NextLive]_vars /\ WF_vars(OnUpdate(LiveDocs))

(* ------------------------------ properties ---------------------------- *)

\* Number of committed documents that carry block id.
DocsOf(idx, id) == CopiesIn(id, BagOfAll(LAMBDA d : d.block_id, idx))

\* Number of SearchResult items of a result.
ItemCount(items) == BagCardinality(items)

SearchReturnedOk == ret.op = "search" /\ ret.ok

\* A step that ends an on_update call.
OnUpdateReturns == pc # "idle" /\ pc' = "idle"

\* C1 (commit visibility): once an on_update that found the counter above 0
\* has returned Ok having scanned block B while B's string-typed title or
\* text held term t, a search for t that succeeds afterwards has B's id among
\* its results, provided fewer than TopK index documents match t.
CommitVisibility ==
    (SearchReturnedOk /\ MatchCount(index, ret.query) < TopK)
        => \A p \in visibleTerms : p[2] = ret.query => CopiesIn(p[1], ret.items) >= 1

\* Block b, indexed for the first time by the second pass, is found by the
\* term y it holds.
CommitVisibilityWitness ==
    /\ SearchReturnedOk
    /\ ret.query = "y"
    /\ <<"b", "y">> \in visibleTerms
    /\ CopiesIn("b", passesWith) = 1
    /\ CopiesIn("a", passesWith) = 2
    /\ CopiesIn("b", ret.items) = 1

\* C2 (exact match set): while the index holds the documents of exactly one
\* reindex pass, a successful search for t returns one result for each block
\* whose string-typed title or text held t when that pass scanned it, and no
\* other result, provided at most TopK documents match.
ExactMatchSet ==
    (SearchReturnedOk /\ commits = 1 /\ MatchCount(index, ret.query) <= TopK)
        => \A id \in BlockIds :
              CopiesIn(id, ret.items) = IF <<id, ret.query>> \in committedTerms THEN 1 ELSE 0

\* The term y is in the text of both blocks and the search returns both ids.
ExactMatchSetWitness ==
    /\ SearchReturnedOk
    /\ commits = 1
    /\ ret.query = "y"
    /\ \A id \in BlockIds :
          /\ id \in DOMAIN store
          /\ store[id].text = Some(AnyString("x y"))
          /\ CopiesIn(id, ret.items) = 1

\* C3 (no-op when clean): an on_update that loads the counter as 0 skips the
\* scan and the writer, changes neither the committed index nor the counter,
\* and returns Ok; with no notification racing it the counter is still 0.
NoOpWhenClean ==
    /\ [][(pc = "idle" /\ pc' # "idle" /\ queue_reindex = 0)
             => (pc' = "sub" /\ curr' = 0)]_vars
    /\ [][(pc = "sub" /\ curr = 0) => (index' = index /\ added' = {})]_vars
    /\ [][(pc = "sub" /\ curr = 0 /\ pc' = "idle")
             => /\ ret' = OkUpdate(0)
                /\ queue_reindex' = queue_reindex
                /\ (racing = 0 => queue_reindex' = 0)]_vars

\* A clean on_update returned Ok over an index that holds documents.
NoOpWhenCleanWitness ==
    /\ ret = OkUpdate(0)
    /\ queue_reindex = 0
    /\ Total(index) > 0

\* C4 (no lost dirty signal): the fetch_sub that ends a pass takes exactly the
\* value the pass loaded, which leaves the notifications that raced the pass
\* in the counter; so if a notification arrived after the load, the counter
\* is above 0 when the call returns, it is not lowered while no call runs,
\* and the next on_update scans.
NoLostDirtySignal ==
    /\ [][(pc = "sub" /\ pc' = "idle")
             => (queue_reindex' = queue_reindex - curr /\ queue_reindex' = racing)]_vars
    /\ [][(OnUpdateReturns /\ racing > 0) => queue_reindex' > 0]_vars
    /\ [][(pc = "idle" /\ pc' = "idle") => queue_reindex' >= queue_reindex]_vars
    /\ [][(pc = "idle" /\ pc' # "idle" /\ queue_reindex > 0) => pc' = "scan"]_vars

\* A pass drained what it had loaded and a notification that raced it is
\* still counted.
NoLostDirtySignalWitness ==
    /\ ret.op = "on_update"
    /\ ret.ok
    /\ ret.drained > 0
    /\ queue_reindex > 0

\* C5 as stated (drain precedes failure): when a pass fails, the counter has
\* been reduced by the amount the pass loaded.
DrainPrecedesFailure ==
    [][(OnUpdateReturns /\ ~ret'.ok) => queue_reindex' = queue_reindex - curr]_vars

\* C5 as amended: a pass that fails returns before the fetch_sub, so the
\* counter keeps the amount the pass loaded and stays above 0.
FailureKeepsSignal ==
    [][(OnUpdateReturns /\ ~ret'.ok)
          => (curr > 0 /\ queue_reindex' = queue_reindex /\ queue_reindex' >= curr)]_vars

\* A commit failed and the pending signal is still in the counter.
FailureKeepsSignalWitness ==
    /\ ret = ErrUpdate("commit")
    /\ queue_reindex > 0
    /\ Total(index) > 0

TopKBound == SearchReturnedOk => ItemCount(ret.items) <= TopK

\* More than TopK documents of both blocks match, and TopK results come back.
TopKBoundWitness ==
    /\ SearchReturnedOk
    /\ MatchCount(index, ret.query) > TopK
    /\ ItemCount(ret.items) = TopK
    /\ \A id \in BlockIds : CopiesIn(id, ret.items) > 0

\* C8 (a malformed query is an error): no successful search result is for a
\* query the parser rejects, and a search that returns an error changes
\* neither the committed index nor the counter.
MalformedQueryIsError ==
    /\ [](SearchReturnedOk => ParseOk(ret.query))
    /\ [][(ret'.op = "search" /\ ~ret'.ok)
             => (index' = index /\ queue_reindex' = queue_reindex)]_vars

\* The parser rejected the query of a search over an index that holds
\* documents, with a notification pending.
MalformedQueryIsErrorWitness ==
    /\ ret.op = "search"
    /\ ~ret.ok
    /\ ret.why = "parse"
    /\ ret.query = Malformed
    /\ Total(index) > 0
    /\ queue_reindex > 0

\* C9 (full unconditional scan): the scan lists every block the store knows,
\* attached or not, and the commit of a pass adds exactly one document for
\* each block the scan found and none for any other, whatever amount the
\* pass loaded.
FullUnconditionalScan ==
    /\ [][(pc = "scan" /\ pc' = "writer")
             => DOMAIN re_index_list' = DOMAIN store]_vars
    /\ [][(pc = "add" /\ pc' = "sub")
             => \A id \in BlockIds :
                   DocsOf(index', id) - DocsOf(index, id)
                       = IF id \in DOMAIN scanned THEN 1 ELSE 0]_vars

\* A pass that loaded 2 committed the one document of a block that had been
\* removed from its parent's children before the scan.
FullUnconditionalScanWitness ==
    /\ pc = "sub"
    /\ curr = 2
    /\ \E id \in DOMAIN scanned :
          /\ ~scanned[id].attached
          /\ HasTerm(scanned[id], "x")
          /\ DocsOf(index, id) = 1

\* C10 (append-only index): no step lowers the number of copies of any
\* committed document, and each block has as many documents as committed
\* passes scanned it; so a search can return one block_id several times.
AppendOnlyIndex ==
    /\ [][\A d \in Docs : CopiesIn(d, index') >= CopiesIn(d, index)]_vars
    /\ [](\A id \in BlockIds : DocsOf(index, id) = CopiesIn(id, passesWith))

\* A block scanned by two passes has two documents, one from before its text
\* was rewritten, and a search returns its id twice.
AppendOnlyIndexWitness ==
    /\ SearchReturnedOk
    /\ \E id \in BlockIds :
          /\ CopiesIn(id, passesWith) = 2
          /\ CopiesIn(id, ret.items) = 2
          /\ \E d \in Docs : d.block_id = id /\ CopiesIn(d, index) = 1

\* What block.content().get(key) returned is a string.
IsString(field) == field # None /\ field[1].tag = "String"

\* C11 (index document shape): the scan cannot fail, and the commit of a pass
\* adds only documents that carry the id of a block the pass scanned, with a
\* title exactly when the scanned "title" was a string (then that string)
\* and a body exactly when the scanned "text" was a string (then that
\* string); a missing value or one of another type gives an absent field.
IndexDocumentShape ==
    /\ [][pc = "scan" => pc' \in {"scan", "writer"}]_vars
    /\ [][(pc = "add" /\ pc' = "sub")
             => \A d \in BagToSet(index') :
                   CopiesIn(d, index') > CopiesIn(d, index)
                       => /\ d.block_id \in DOMAIN scanned
                          /\ LET b == scanned[d.block_id]
                             IN /\ d.title # None <=> IsString(b.title)
                                /\ d.body # None <=> IsString(b.text)
                                /\ IsString(b.title) => d.title = Some(b.title[1].val)
                                /\ IsString(b.text) => d.body = Some(b.text[1].val)]_vars

\* A block with a number as its title and a string as its text was
\* committed as a document with a body and without a title.
IndexDocumentShapeWitness ==
    /\ pc = "sub"
    /\ \E id \in DOMAIN scanned :
          /\ scanned[id].title = Some(AnyNumber)
          /\ scanned[id].text = Some(AnyString("x"))
          /\ CopiesIn([block_id |-> id, title |-> None, body |-> Some("x")], index) = 1

\* The documents the running pass adds: one for each block it scanned.
PassDocs == SetToBag({BlockDoc(id, ReIndexList(scanned)[id]) : id \in DOMAIN scanned})

\* What a search for q returns over the committed index idx.
Seen(idx, q) == Items(Hits(idx, q))

\* C12 (reader isolation): a successful search made while an on_update call
\* runs returns what the committed index of before the pass holds for the
\* query, or what that index with all the documents of the pass holds, never
\* the hits of an index with only some of them (stated for fewer than TopK
\* hits, where a search returns every hit); and a search of any term can
\* return at every point of a pass: it does not wait for the writer.
ReaderIsolation ==
    /\ []((SearchReturnedOk /\ pc # "idle" /\ MatchCount(index, ret.query) < TopK)
            => \/ ret.items = Seen(atLoad, ret.query)
               \/ ret.items = Seen(atLoad (+) PassDocs, ret.query))
    /\ [](~Held => \A q \in Terms : ENABLED SearchOk(q))

\* One of the two documents of the pass is in the open writer, it holds the
\* term searched, and the search returns only the hit committed before.
ReaderIsolationWitness ==
    /\ SearchReturnedOk
    /\ pc = "add"
    /\ ItemCount(ret.items) = 1
    /\ \E id \in added :
          /\ added # DOMAIN re_index_list
          /\ <<id, ret.query>> \in TermsOf(scanned)
          /\ DocsOf(index, id) = 0
          /\ CopiesIn(id, ret.items) = 0

\* C13 (all-or-nothing pass): a call that leaves the writer creation, the
\* adds or the commit without reaching the fetch_sub returns an error, and
\* the committed index is then the one of before the pass; no search returns
\* more results for a block than committed passes scanned it, so what a
\* failed pass added is seen by no later search.
AllOrNothingPass ==
    /\ [][(OnUpdateReturns /\ pc # "sub")
             => /\ pc \in {"writer", "add"}
                /\ ret'.op = "on_update"
                /\ ~ret'.ok
                /\ index' = atLoad]_vars
    /\ [][(OnUpdateReturns /\ ~ret'.ok) => index' = atLoad]_vars
    /\ [](SearchReturnedOk
            => \A id \in BlockIds : CopiesIn(id, ret.items) <= CopiesIn(id, passesWith))

\* The second pass had both its documents in the writer when its commit
\* failed: the index still holds the one document of the first pass, and
\* none for the block the second pass was the first to scan.
AllOrNothingPassWitness ==
    /\ ret = ErrUpdate("commit")
    /\ Total(index) = 1
    /\ \E id \in DOMAIN store : DocsOf(index, id) = 0 /\ HasTerm(store[id], "y")

\* C14 (counter accounting): the counter equals the number of notifications
\* so far (one for each transaction, whatever it edited) less the sum of the
\* amounts the fetch_sub of the calls that returned Ok took; a step that
\* changes the counter is a notification, which adds exactly 1, or the
\* fetch_sub that ends a call, which takes the amount the call loaded.
CounterAccounting ==
    /\ [](queue_reindex = transacts - drained)
    /\ [][transacts' # transacts
             => (transacts' = transacts + 1 /\ queue_reindex' = queue_reindex + 1)]_vars
    /\ [][queue_reindex' # queue_reindex
             => \/ transacts' = transacts + 1
                \/ /\ pc = "sub"
                   /\ pc' = "idle"
                   /\ queue_reindex' = queue_reindex - curr
                   /\ drained' = drained + curr]_vars

\* A pass took the 1 it had loaded and committed its documents; the second
\* notification is pending.
CounterAccountingWitness ==
    /\ pc = "idle"
    /\ transacts = 2
    /\ drained = 1
    /\ queue_reindex = 1
    /\ Total(index) > 0

\* The index holds, for every block of the store, the document of the
\* block as it is now.
Covered ==
    \A id \in DOMAIN store :
        CopiesIn(BlockDoc(id, ReIndexList(store)[id]), index) >= 1

\* C15 (eventual quiescence): in a run where on_update keeps being called,
\* if from some point on no notification arrives and no call fails, then
\* from some point on the counter is 0 for good and the committed index
\* holds a document of every block of the store as the last transaction
\* left it.
EventualQuiescence ==
    (/\ <>[][transacts' = transacts]_vars
     /\ <>[][~(OnUpdateReturns /\ ~ret'.ok)]_vars)
        => <>[](queue_reindex = 0 /\ Covered)

\* Every transaction has been made, the pass that followed the last one has
\* drained the counter to 0, and both blocks are in the index.
EventualQuiescenceWitness ==
    /\ transacts = MaxTransacts
    /\ ret.op = "on_update"
    /\ ret.ok
    /\ ret.drained > 0
    /\ queue_reindex = 0
    /\ DOMAIN store = BlockIds
    /\ Covered

\* The hits of a query that have no block_id, and those of block id.
ForeignHits(idx, q) ==
    LET hits == Hits(idx, q)
    IN [d \in {e \in BagToSet(hits) : ~HasBlockId(e)} |-> hits[d]]

HitsOf(idx, q, id) ==
    LET hits == Hits(idx, q)
    IN [d \in {e \in BagToSet(hits) : HasBlockId(e) /\ e.block_id = id} |-> hits[d]]

\* C16 (degraded, not failed, on a corrupt hit): a search whose hits include
\* a document without a block_id can still return Ok; a successful search
\* (of at most TopK hits) returns one result for each hit that has a
\* block_id, under that id, and none for a hit that has none.
DegradedNotFailed ==
    /\ (~Held => \A q \in Terms : ENABLED SearchOk(q))
    /\ (SearchReturnedOk /\ MatchCount(index, ret.query) <= TopK)
          => /\ BagToSet(ret.items) \subseteq BlockIds
             /\ \A id \in BlockIds :
                   CopiesIn(id, ret.items)
                       = BagCardinality(HitsOf(index, ret.query, id))
             /\ ItemCount(ret.items)
                   = MatchCount(index, ret.query)
                       - BagCardinality(ForeignHits(index, ret.query))

\* Three documents match the query, one of them without a block_id, and
\* the search returns the two others.
DegradedNotFailedWitness ==
    /\ SearchReturnedOk
    /\ MatchCount(index, ret.query) = 3
    /\ BagCardinality(ForeignHits(index, ret.query)) = 1
    /\ ItemCount(ret.items) = 2
    /\ \A id \in BlockIds : CopiesIn(id, ret.items) = 1

\* C17 (search is read-only): a step in which a search returns, Ok or Err,
\* leaves the committed index, the counter, the store and the running
\* on_update call as they are; the set of ids a successful search returns
\* is that of the hits of the committed index, and only the commit of an
\* on_update changes that index: the same query gives the same set until
\* then.
SearchIsReadOnly ==
    /\ [][ret'.op = "search"
             => UNCHANGED << index, queue_reindex, store, pc, curr,
                             re_index_list, added >>]_vars
    /\ [](SearchReturnedOk
            => BagToSet(ret.items)
                  = {d.block_id : d \in BagToSet(Hits(index, ret.query))})
    /\ [][index' # index => (pc = "add" /\ pc' = "sub")]_vars

\* A search returned a result between two passes, with the notification of
\* the second transaction pending.
SearchIsReadOnlyWitness ==
    /\ SearchReturnedOk
    /\ pc = "idle"
    /\ transacts = 2
    /\ queue_reindex = 1
    /\ ItemCount(ret.items) = 1

\* C18 as stated (subscription lifetime): once the drop of the plugin has
\* begun, no notification increments the counter.
NoNotificationOnceTeardownBegins ==
    [][life # "alive" => queue_reindex' = queue_reindex]_vars

\* C18 as amended: the subscription is held from the construction of the
\* plugin until the last step of its drop, and only while it is held does a
\* notification increment the counter; once the drop has begun the plugin
\* starts no call and its committed index does not change, and once the
\* drop has released _update_sub no step changes the counter.
SubscriptionDroppedLast ==
    /\ [](subscribed <=> life # "dropped")
    /\ [][queue_reindex' > queue_reindex => subscribed]_vars
    /\ [][life = "dropped" => queue_reindex' = queue_reindex]_vars
    /\ [][life # "alive" => (life' # "alive" /\ pc' = "idle" /\ index' = index)]_vars

\* The plugin was dropped after a pass had taken the first notification; the
\* second transaction found no callback and the counter is still 0.
SubscriptionDroppedLastWitness ==
    /\ life = "dropped"
    /\ transacts = 2
    /\ drained = 1
    /\ queue_reindex = 0
    /\ Total(index) > 0

====
